---- MODULE Spec2Model ----
(***************************************************************************)
(* A model of snyk_sast_tool/core/api_client.py: the transport             *)
(* (_make_request, _handle_response), the pagination walker                *)
(* (_process_paginated_response) and the resource gateway (get/enable/     *)
(* disable SAST settings, organization and project listings), run against  *)
(* a vendor whose answers are chosen nondeterministically.                 *)
(*                                                                         *)
(* Strings that the code inspects are modelled by what the code does with  *)
(* them: URLs and links.next values are sequences of characters; error     *)
(* messages are sequences of words (what str.split() yields), a word being *)
(* either a text word or a decimal numeral.                                *)
(***************************************************************************)
EXTENDS Integers, Sequences, FiniteSets, TLC

VARIABLES
    op,       \* the operation in progress or, when pc = "idle", the last one ("none" at first)
    pc,       \* the position inside that operation ("idle": none is in progress)
    ret,      \* how the last operation ended: a returned value or a raised exception
    mr,       \* the frame of the _make_request call in progress or just ended
    wire,     \* the HTTP requests a _make_request call made on its own has sent
    resps,    \* what each of those requests ended in (a response or a transport exception)
    sleeps,   \* the arguments of the time.sleep calls of that _make_request call
    flag,     \* vendor side: the organization's sast_enabled
    honest,   \* vendor side: every request so far (of the listing, for a listing) was carried out and answered with a success status
    calls,    \* the gateway operations started so far, the last one possibly in progress
    patches,  \* the number of PATCH requests sent so far
    precheck, \* how the pre-check read of the current toggle ended ("none": not yet)
    patched,  \* the current toggle has sent a PATCH request
    url,      \* the walker's url: the page to request next (empty: none)
    acc,      \* the walker's accumulator (all_orgs, sast_projects)
    wait,     \* the argument of the walker's last rate-limit sleep (0: it has not slept)
    served,   \* vendor side: the items of the pages served to the current listing, in order
    fetched,  \* vendor side: the page URLs served to the current listing
    linked,   \* vendor side: the page URL the last served page linked to (empty: none)
    strayed,  \* vendor side: a page was served that the page before it did not link to
    arg,      \* the identifier(s) the current operation was called with
    sent,     \* the HTTP methods of the requests the current operation has sent
    ui,       \* the state of the front end (CLI command, menu workflow, caller) that drives the client
    console,  \* the lines the current enable_sast or disable_sast has printed
    token,    \* self.token, the API token the client was constructed with
    next_in,  \* a resource whose links.next values are resolved by themselves
    next_out  \* the URL resolved for each shape of link to that resource, once resolved

toggle_vars == <<flag, calls, patches, precheck, patched>>
walk_vars == <<url, acc, wait>>
page_vars == <<served, fetched, linked, strayed>>
resolve_vars == <<next_in, next_out>>
call_vars == <<arg, sent>>
front_vars == <<ui, console, token>>
vars == <<op, pc, ret, mr, wire, resps, sleeps, honest, toggle_vars, walk_vars, page_vars,
          resolve_vars, call_vars, front_vars>>


(***************************************************************************)
(* Bounds of the model.                                                    *)
(***************************************************************************)
\* Largest numeric Retry-After value the vendor sends.
MaxRetryAfter == 2
\* Number of gateway operations run one after the other.
MaxCalls == 2
\* Number of distinct pages the vendor's listing has.
NumPages == 2
\* Number of pages the vendor serves to one listing before it only answers errors.
MaxServed == 2
\* Largest number of items on a page.
MaxItems == 2
\* Largest number of characters drawn freely for a resource name.
MaxSuffixLen == 3
\* Largest number of organizations a file of organizations lists.
MaxOrgs == 2
\* Largest number of SAST projects the listing returns for an organization.
MaxProjects == 2

(***************************************************************************)
(* Words and messages.                                                     *)
(***************************************************************************)
\* A text word of a message.
W(s) == [w |-> s]
\* str(n) for an integer n, as it appears inside an f-string: one numeral word.
N(n) == [n |-> n]
\* A message given by its text words.
Text(ws) == [i \in 1..Len(ws) |-> W(ws[i])]
\* Whether int(word) succeeds; int() of a text word raises ValueError.
IsInt(word) == DOMAIN word = {"n"}

(***************************************************************************)
(* Character strings.                                                      *)
(***************************************************************************)
\* str.startswith(prefix)
StartsWith(s, prefix) ==
    /\ Len(s) >= Len(prefix)
    /\ SubSeq(s, 1, Len(prefix)) = prefix

RECURSIVE LStrip(_, _)
\* str.lstrip(c) for a single character c
LStrip(s, c) ==
    IF s # <<>> /\ Head(s) = c THEN LStrip(Tail(s), c) ELSE s

\* "https://api.snyk.io", the literal of lines 148, 150 and 153
api_origin == <<"h","t","t","p","s",":","/","/","a","p","i",".","s","n","y","k",".","i","o">>
\* self.api_rest_base
api_rest_base == api_origin \o <<"/","r","e","s","t">>
\* The settings URL of the organization (the version query is left out: no code reads it).
settings_url == api_rest_base \o <<"/","o","r","g","s","/","o","/","s","e","t","t","i","n","g","s","/","s","a","s","t">>
\* The URL of a project of the organization.
project_url == api_rest_base \o <<"/","o","r","g","s","/","o","/","p","r","o","j","e","c","t","s","/","p">>
\* The organization URL that cli.py fetches through _make_request directly.
org_url == api_rest_base \o <<"/","o","r","g","s","/","o">>

(***************************************************************************)
(* Identifiers.                                                            *)
(***************************************************************************)
\* The length below which get_organizations and get_sast_projects refuse an
\* identifier (len(group_id) < 10, len(org_id) < 10).
MinIdLen == 10
\* The identifiers a caller passes: the empty string, and strings of
\* MinIdLen - 1 and MinIdLen characters. In the URLs above the place of the
\* identifier is held by "o": no code reads an identifier back from a URL.
Ids == {[i \in 1..n |-> "o"] : n \in {0, MinIdLen - 1, MinIdLen}}
\* The identifier passes the validation of lines 176 and 410 (the callers
\* pass strings, so isinstance(..., str) holds).
IsValidId(id) == ~(id = <<>> \/ Len(id) < MinIdLen)
\* The arguments of an operation called without an identifier.
NoArg == <<>>
\* An identifier inside a message: f"...'{group_id}'..." yields one word.
IdWord(id) == [id |-> id]

(***************************************************************************)
(* Exceptions, responses and what the vendor may answer.                   *)
(***************************************************************************)
\* status_code of a SnykAPIError raised without one (None)
NoStatus == 0
\* max_retries, the default of _make_request
MaxRetries == 3

SnykAPIError_nostatus(message, status_code) ==
    [type |-> "SnykAPIError", status_code |-> NoStatus, message |-> message]
SnykAPIError(message, status_code) ==
    [type |-> "SnykAPIError", status_code |-> status_code, message |-> message]
RateLimitExceededError(message, status_code) ==
    [type |-> "RateLimitExceededError", status_code |-> status_code, message |-> message]
\* An exception that is no SnykAPIError (ValueError, AttributeError, ...)
OtherError(type) == [type |-> type, status_code |-> NoStatus, message |-> <<>>]
NoExc == [type |-> "none", status_code |-> NoStatus, message |-> <<>>]
\* except SnykAPIError: matches the class and its subclass
IsSnykAPIError(e) == e.type \in {"SnykAPIError", "RateLimitExceededError"}

\* The exceptions requests raises from session.request, with str(e) of each.
TransportExceptions == {"ConnectionError", "Timeout", "TooManyRedirects"}
ExcText(x) ==
    CASE x = "ConnectionError" -> Text(<<"Connection", "refused">>)
      [] x = "Timeout" -> Text(<<"Read", "timed", "out">>)
      [] OTHER -> Text(<<"Exceeded", "30", "redirects">>)

\* A Retry-After header: absent, a decimal number of seconds, or an HTTP date.
NoHeader == [absent |-> TRUE]
RetryAfterValues ==
    {NoHeader, W("Wed,")} \cup {N(n) : n \in 0..MaxRetryAfter}

\* The path of the listing an operation walks, below the REST base.
ListingPath(operation) ==
    IF operation = "get_organizations" THEN <<"o","r","g","s">>
    ELSE <<"o","r","g","s","/","o","/","p","r","o","j","e","c","t","s">>
Digit(n) == <<"0","1","2","3","4","5","6","7","8","9">>[n + 1]
\* The resource of page j of the listing, relative to the REST base. The
\* query stands for the version, limit and cursor parameters, which no code
\* of the client reads.
PageSuffix(operation, j) == ListingPath(operation) \o <<"?","p","=", Digit(j)>>
\* The URL at which the vendor serves page j.
PageUrl(operation, j) == api_rest_base \o <<"/">> \o PageSuffix(operation, j)
PageUrls(operation) == {PageUrl(operation, j) : j \in 1..NumPages}
PageAt(operation, u) == CHOOSE j \in 1..NumPages : PageUrl(operation, j) = u

\* The shapes in which the vendor writes the link to the resource `suffix`.
LinkShapes == {"absolute", "prefixed", "bare", "slash"}
LinkTo(shape, suffix) ==
    CASE shape = "absolute" -> api_rest_base \o <<"/">> \o suffix
      [] shape = "prefixed" -> <<"/","r","e","s","t","/">> \o suffix
      [] shape = "bare" -> suffix
      [] shape = "slash" -> <<"/">> \o suffix

\* links of a page: without "next", or with the string it holds.
NoNext == [has_next |-> FALSE, next |-> <<>>]
Next_(link) == [has_next |-> TRUE, next |-> link]
Links(operation) ==
    {NoNext, Next_(<<>>)}
    \cup {Next_(LinkTo(shape, PageSuffix(operation, j))) :
             shape \in LinkShapes, j \in 1..NumPages}

\* The k-th item of page j; the types alternate so that every page of two
\* items mixes "sast" with another type.
Item(j, k) ==
    [id |-> 10 * j + k,
     type |-> IF (j + k) % 2 = 0 THEN "sast" ELSE "iac",
     name |-> <<"s", "[", Digit(k), "]">>]
\* The data a page may hold: the first n of its items.
PageData(j) == {[k \in 1..n |-> Item(j, k)] : n \in 0..MaxItems}
PageBody(data, links) == [kind |-> "page", data |-> data, links |-> links]
\* The URL of the page a links value points to (empty: it points to none).
LinkTarget(operation, links) ==
    IF ~links.has_next \/ links.next = <<>> THEN <<>>
    ELSE PageUrl(operation,
                 CHOOSE j \in 1..NumPages :
                     \E shape \in LinkShapes :
                         LinkTo(shape, PageSuffix(operation, j)) = links.next)

\* Response bodies, as response.json() yields them (NoBody: no JSON in the response).
NoBody == [kind |-> "none"]
SettingsBody(enabled) == [kind |-> "settings", sast_enabled |-> enabled]
ErrorBody == [kind |-> "errors"]
\* An error body whose errors[0].detail says that the flag already has the
\* value it has.
AlreadyBody(enabled) ==
    [kind |-> "errors",
     detail |-> Text(<<"SAST", "is", "already",
                       IF enabled THEN "enabled" ELSE "disabled">>)]
OtherBody == [kind |-> "other"]

Statuses == {200, 201, 202, 204, 400, 404, 429, 500}
\* The statuses with which the vendor reports that it did what was asked.
IsSuccess(status) == status \in 200..299

\* The operations that walk a paginated listing.
Listings == {"get_organizations", "get_sast_projects"}

\* What one HTTP attempt ends in: a response, or an exception of the transport library.
Response(status, retry_after, body) ==
    [status |-> status, retry_after |-> retry_after, body |-> body, exc |-> "none"]
Failure(x) ==
    [status |-> 0, retry_after |-> NoHeader, body |-> NoBody, exc |-> x]
NoResponse == Response(0, NoHeader, NoBody)
\* The json= keyword of a request without a payload.
NoJson == [absent |-> TRUE]

\* The bodies the vendor may send with `status` in answer to a request; a read
\* of the settings is answered truthfully.
VendorBodies(method, u, status) ==
    IF ~IsSuccess(status)
    \* a PATCH that asks for the value the flag has may be refused with 400
    \* and a detail that says so
    THEN {ErrorBody}
         \cup (IF /\ method = "PATCH" /\ status = 400 /\ mr.json # NoJson
                  /\ mr.json.sast_enabled = flag
               THEN {AlreadyBody(flag)} ELSE {})
    ELSE IF op \in Listings
         \* a page is served at its URL only, and to one listing MaxServed times
         THEN IF u \notin PageUrls(op) \/ Len(fetched) >= MaxServed THEN {}
              ELSE IF status = 204 THEN {NoBody}
              ELSE IF status = 200
                   THEN {PageBody(d, l) : d \in PageData(PageAt(op, u)), l \in Links(op)}
              ELSE {}
    ELSE IF status = 204 THEN {NoBody}
    \* a deletion is confirmed with or without a body
    ELSE IF method = "DELETE" THEN {NoBody, OtherBody}
    ELSE IF u = settings_url /\ method = "GET" THEN {SettingsBody(flag)}
    ELSE IF u = settings_url /\ method = "PATCH"
         THEN {NoBody, OtherBody} \cup {SettingsBody(b) : b \in BOOLEAN}
    ELSE {OtherBody}

\* Every response the vendor may give to a request.
VendorResponses(method, u) ==
    UNION {{Response(s, NoHeader, b) : b \in VendorBodies(method, u, s)} :
              s \in Statuses \ {429}}
    \cup {Response(429, h, ErrorBody) : h \in RetryAfterValues}

(***************************************************************************)
(* How a call ends: with a returned value or with a raised exception.      *)
(***************************************************************************)
NoRet == [kind |-> "none"]
Returned(v) == [kind |-> "return", value |-> v]
Raised(e) == [kind |-> "raise", exc |-> e]

(***************************************************************************)
(* SnykClient.__init__                                                     *)
(***************************************************************************)
headers_rest == {"Authorization", "Content-Type", "Accept"}
\* The headers enable_sast and disable_sast build for their PATCH.
patch_headers == {"Content-Type", "Authorization", "snyk-version", "Accept"}

(***************************************************************************)
(* SnykClient._make_request                                                *)
(***************************************************************************)
\* The frame of a call: kwargs['headers'] is in `headers` (lines 89-90 put
\* headers_rest there when the caller gave none), retry_delay starts at 1.
NewFrame(method, u, headers, json) ==
    [method |-> method, url |-> u, headers |-> headers, json |-> json,
     attempt |-> 0, retry_delay |-> 1, st |-> "running",
     response |-> NoResponse, exc |-> NoExc]
IdleFrame == [NewFrame("GET", <<>>, {}, NoJson) EXCEPT !.st = "idle"]

\* for attempt in range(max_retries + 1)
InLoop(attempt) == attempt \in 0..MaxRetries
NextAttempt_stuck(attempt) == attempt
\* the loop's advance to its next attempt
NextAttempt(attempt) == attempt + 1
\* if attempt < max_retries (line 103)
MayRetry(attempt) == attempt < MaxRetries
\* if attempt == max_retries (lines 111 and 117)
RetriesExhausted(attempt) == attempt = MaxRetries

\* The Retry-After header of a response is one int() accepts, or is absent.
AdvisedWaitReadable(response) ==
    response.retry_after = NoHeader \/ IsInt(response.retry_after)

RetryAfterOf_ignored(response, retry_delay) == N(retry_delay)
\* response.headers.get('Retry-After', retry_delay), before int() is applied
RetryAfterOf(response, retry_delay) ==
    IF response.retry_after = NoHeader THEN N(retry_delay) ELSE response.retry_after

\* The vendor did what the request asked and said so: a success status, and
\* for a read a body to read.
Answered(method, outcome) ==
    /\ outcome.exc = "none"
    /\ IsSuccess(outcome.status)
    /\ method = "GET" => outcome.body # NoBody

\* The attempts of a _make_request call made on its own are recorded one by
\* one; a call made from inside a gateway operation is observed through the
\* frame it ends with and through the counters of the operation.
Traced == op = "make_request"
Log(trace, x) == IF Traced THEN Append(trace, x) ELSE trace

\* The request goes out with the session's headers: those popped from kwargs.
\* The pop leaves kwargs without 'headers', so a later attempt pops {}.
SendRequest(outcome) ==
    /\ wire' = Log(wire, [method |-> mr.method, url |-> mr.url, headers |-> mr.headers])
    /\ resps' = Log(resps, outcome)
    /\ honest' = (honest /\ Answered(mr.method, outcome))
    /\ patches' = IF mr.method = "PATCH" THEN patches + 1 ELSE patches
    /\ patched' = (patched \/ mr.method = "PATCH")
    /\ sent' = sent \cup {mr.method}
    \* the vendor applies exactly the PATCHes it answers with a success status
    /\ flag' = IF mr.method = "PATCH" /\ mr.json # NoJson
                  /\ outcome.exc = "none" /\ IsSuccess(outcome.status)
               THEN mr.json.sast_enabled ELSE flag
    \* the vendor's record of the pages it served to the listing
    /\ IF outcome.body.kind = "page"
       THEN /\ served' = served \o outcome.body.data
            /\ fetched' = Append(fetched, mr.url)
            /\ linked' = LinkTarget(op, outcome.body.links)
            /\ strayed' = (strayed \/ (fetched # <<>> /\ mr.url # linked))
       ELSE UNCHANGED page_vars

SleepAndRetry_nodouble(d) ==
    /\ sleeps' = Log(sleeps, d)
    /\ mr' = [mr EXCEPT !.headers = {}, !.attempt = NextAttempt(@)]
\* time.sleep(d); retry_delay *= 2; then the next iteration
SleepAndRetry(d) ==
    /\ sleeps' = Log(sleeps, d)
    /\ mr' = [mr EXCEPT !.headers = {}, !.attempt = NextAttempt(@),
                        !.retry_delay = 2 * @]

ReturnResponse(r) ==
    /\ mr' = [mr EXCEPT !.headers = {}, !.st = "returned", !.response = r]
    /\ UNCHANGED sleeps

RaiseFromRequest(e) ==
    /\ mr' = [mr EXCEPT !.headers = {}, !.st = "raised", !.exc = e]
    /\ UNCHANGED sleeps

\* One iteration of the loop in which session.request returns a response
\* (lines 96-108).
MR_Response ==
    /\ mr.st = "running" /\ InLoop(mr.attempt)
    /\ \E r \in VendorResponses(mr.method, mr.url) :
          /\ SendRequest(r)
          /\ IF r.status = 429
             THEN LET ra == RetryAfterOf(r, mr.retry_delay) IN
                  IF ~IsInt(ra) THEN RaiseFromRequest(OtherError("ValueError"))
                  ELSE IF MayRetry(mr.attempt) THEN SleepAndRetry(ra.n)
                  ELSE ReturnResponse(r)
             ELSE ReturnResponse(r)
    /\ UNCHANGED <<op, pc, ret, calls, precheck, walk_vars, arg>>
    /\ UNCHANGED resolve_vars
    /\ UNCHANGED front_vars

\* One iteration in which session.request raises ConnectionError or Timeout
\* (lines 110-114).
MR_ConnectionError ==
    /\ mr.st = "running" /\ InLoop(mr.attempt)
    /\ \E x \in {"ConnectionError", "Timeout"} :
          /\ SendRequest(Failure(x))
          /\ IF RetriesExhausted(mr.attempt)
             THEN RaiseFromRequest(SnykAPIError(
                      Text(<<"Connection", "failed", "after">>) \o <<N(MaxRetries)>>
                      \o Text(<<"retries:">>) \o ExcText(x), NoStatus))
             ELSE SleepAndRetry(mr.retry_delay)
    /\ UNCHANGED <<op, pc, ret, calls, precheck, walk_vars, arg>>
    /\ UNCHANGED resolve_vars
    /\ UNCHANGED front_vars

\* One iteration in which session.request raises another RequestException
\* (lines 116-120).
MR_RequestException ==
    /\ mr.st = "running" /\ InLoop(mr.attempt)
    /\ \E x \in TransportExceptions \ {"ConnectionError", "Timeout"} :
          /\ SendRequest(Failure(x))
          /\ IF RetriesExhausted(mr.attempt)
             THEN RaiseFromRequest(SnykAPIError(
                      Text(<<"Request", "failed", "after">>) \o <<N(MaxRetries)>>
                      \o Text(<<"retries:">>) \o ExcText(x), NoStatus))
             ELSE SleepAndRetry(mr.retry_delay)
    /\ UNCHANGED <<op, pc, ret, calls, precheck, walk_vars, arg>>
    /\ UNCHANGED resolve_vars
    /\ UNCHANGED front_vars

\* The _make_request call has ended (returned or raised).
CallEnded == mr.st \in {"returned", "raised"}

\* Entering _make_request from a caller: a new frame and empty logs of the call.
EnterMakeRequest(method, u, headers, json) ==
    /\ mr' = NewFrame(method, u, headers, json)
    /\ wire' = <<>> /\ resps' = <<>> /\ sleeps' = <<>>


(***************************************************************************)
(* SnykClient._handle_response                                             *)
(***************************************************************************)
\* The value of a call that returns None.
None == [kind |-> "None"]
\* The Retry-After default of _handle_response
DefaultRetryAfter == 60

\* f"Rate limit exceeded. Please wait {retry_after} seconds before retrying."
RateLimitMessage(retry_after) ==
    Text(<<"Rate", "limit", "exceeded.", "Please", "wait">>) \o <<N(retry_after)>>
    \o Text(<<"seconds", "before", "retrying.">>)

\* f"API request failed: {error_msg}"; the vendor's error text is not modelled
\* beyond its place in the message.
ApiFailedMessage == Text(<<"API", "request", "failed:", "error">>)
\* The same with the detail of the body's first error, when it carries one:
\* f"{err.get('detail', ...)} (status: {err.get('status', 'N/A')})"
ApiFailedWith(body) ==
    IF "detail" \in DOMAIN body
    THEN Text(<<"API", "request", "failed:">>) \o body.detail
         \o Text(<<"(status:", "N/A)">>)
    ELSE ApiFailedMessage

\* How _handle_response(response) ends: the parsed body, None for a 204, or
\* an exception. raise_for_status raises for the statuses 400 to 599.
HandleResponse(response) ==
    IF response.status >= 400
    THEN IF response.status = 429
         THEN LET ra == IF response.retry_after = NoHeader
                        THEN N(DefaultRetryAfter) ELSE response.retry_after IN
              IF IsInt(ra)
              THEN Raised(RateLimitExceededError(RateLimitMessage(ra.n), 429))
              ELSE Raised(OtherError("ValueError"))
         ELSE Raised(SnykAPIError(ApiFailedWith(response.body), response.status))
    ELSE IF response.status = 204 THEN Returned(None)
    ELSE IF response.body = NoBody
         \* response.json() raises requests' JSONDecodeError, a RequestException
         THEN Raised(SnykAPIError(ApiFailedMessage, NoStatus))
    ELSE Returned(response.body)

(***************************************************************************)
(* SnykClient.get_sast_settings                                            *)
(***************************************************************************)
\* dict.get(key, default)
DictGet(d, key, default) == IF key \in DOMAIN d THEN d[key] ELSE default

\* {"sast_enabled": False}
DefaultSettings == [sast_enabled |-> FALSE]

\* data.get("data", {}).get("attributes", {}) of a parsed body
AttributesOf(body) ==
    IF body.kind = "settings" THEN [sast_enabled |-> body.sast_enabled]
    ELSE <<>>

\* How get_sast_settings ends, given the frame its _make_request call ended with.
GetSastSettings(frame) ==
    IF frame.st = "raised"
    THEN IF IsSnykAPIError(frame.exc) THEN Returned(DefaultSettings)
         ELSE Raised(frame.exc)
    ELSE IF frame.response.status = 404 THEN Returned(DefaultSettings)
    ELSE LET data == HandleResponse(frame.response) IN
         IF data.kind = "raise"
         THEN IF IsSnykAPIError(data.exc) THEN Returned(DefaultSettings)
              ELSE Raised(data.exc)
         ELSE IF data.value = None
              \* None.get(...)
              THEN Raised(OtherError("AttributeError"))
         ELSE LET settings == AttributesOf(data.value) IN
              Returned([sast_enabled |-> DictGet(settings, "sast_enabled", FALSE),
                        sast_autofix_enabled |->
                            DictGet(settings, "sast_autofix_enabled", FALSE),
                        sast_autofix_pr_enabled |->
                            DictGet(settings, "sast_autofix_pr_enabled", FALSE)])

(***************************************************************************)
(* SnykClient.enable_sast and SnykClient.disable_sast                      *)
(***************************************************************************)
\* The value the operation wants the flag to have.
Desired(operation) == operation = "enable_sast"

\* The entry of `calls` for an operation that starts now.
NewCall(operation) ==
    [op |-> operation, flag_before |-> flag, result |-> NoRet]

\* The operation ends: its result is recorded in its entry of the log and
\* the caller may start another.
Finish(result) ==
    /\ ret' = result
    /\ calls' = [calls EXCEPT ![Len(calls)].result = result]
    /\ pc' = "idle"

\* The pre-check read failed: _make_request gave up with a SnykAPIError (a
\* transport failure), or it returned an error status other than 404 (429
\* when the rate limit outlasted the retries).
PrecheckFailed(frame) ==
    \/ frame.st = "raised" /\ IsSnykAPIError(frame.exc)
    \/ frame.st = "returned" /\ frame.response.status >= 400
                             /\ frame.response.status # 404

\* The value each header of the PATCH carries, as a sequence of words:
\* "Authorization" carries f"token {self.token}".
HeaderValue(h) ==
    CASE h = "Authorization" -> <<"token", token>>
      [] h = "snyk-version" -> <<"api_version">>
      [] OTHER -> <<"application/vnd.api+json">>
\* A line of console output: what it says and the values put into it.
Line(what, shows) == [what |-> what, shows |-> shows]
\* console.print(f"[debug] Headers: {headers}") prints the dictionary, its
\* values included; the lines before and after it print the URL and the payload.
DebugLines(headers) ==
    { Line("Sending PATCH request to", {<<"url">>}),
      Line("Headers", {HeaderValue(h) : h \in headers}),
      Line("Payload", {<<"payload">>}) }

\* The first step of both operations: get_sast_settings is called.
Call_toggle ==
    /\ pc = "idle" /\ Len(calls) < MaxCalls
    /\ \E operation \in {"enable_sast", "disable_sast"} :
          /\ op' = operation
          /\ calls' = Append(calls, NewCall(operation))
    /\ \E org_id \in Ids : arg' = <<org_id>>
    /\ sent' = {}
    /\ pc' = "precheck" /\ ret' = NoRet
    /\ precheck' = "none" /\ patched' = FALSE
    /\ EnterMakeRequest("GET", settings_url, headers_rest, NoJson)
    /\ console' = {}
    /\ UNCHANGED <<flag, honest, patches, walk_vars, page_vars>>
    /\ UNCHANGED resolve_vars
    /\ UNCHANGED <<ui, token>>

AlreadyEnabled_never(current_settings) == FALSE
\* if current_settings.get('sast_enabled', False) (line 238)
AlreadyEnabled(current_settings) == DictGet(current_settings, "sast_enabled", FALSE)
\* if not current_settings.get('sast_enabled', True) (line 315)
AlreadyDisabled(current_settings) == ~DictGet(current_settings, "sast_enabled", TRUE)

\* The payload of the PATCH: {"data": {"attributes": {"sast_enabled": value}}}
Payload(value) == [sast_enabled |-> value]

\* get_sast_settings has ended: the operation ends with True when the
\* settings read say the flag has the desired value, ends with the exception
\* when one escaped get_sast_settings, and sends the PATCH otherwise.
Precheck_done ==
    /\ op \in {"enable_sast", "disable_sast"} /\ pc = "precheck" /\ CallEnded
    /\ precheck' = IF PrecheckFailed(mr) THEN "failed" ELSE "read"
    /\ LET got == GetSastSettings(mr) IN
       IF got.kind = "raise"
       THEN /\ Finish(got)
            /\ UNCHANGED <<mr, wire, resps, sleeps, console>>
       ELSE IF (IF op = "enable_sast" THEN AlreadyEnabled(got.value)
                                      ELSE AlreadyDisabled(got.value))
       THEN /\ Finish(Returned(TRUE))
            /\ console' = console \cup {Line("SAST is already", {<<"org">>})}
            /\ UNCHANGED <<mr, wire, resps, sleeps>>
       ELSE /\ pc' = "patch"
            /\ console' = console \cup DebugLines(patch_headers)
            /\ EnterMakeRequest("PATCH", settings_url, patch_headers, Payload(Desired(op)))
            /\ UNCHANGED <<ret, calls>>
    /\ UNCHANGED <<op, flag, honest, patches, patched, walk_vars, page_vars, call_vars>>
    /\ UNCHANGED resolve_vars
    /\ UNCHANGED <<ui, token>>

RECURSIVE ContainsWords(_, _)
\* Whether the words of `phrase` occur in `message` one after the other:
\* the test `phrase in message` of a lowercased message.
ContainsWords(message, phrase) ==
    IF Len(message) < Len(phrase) THEN FALSE
    ELSE \/ SubSeq(message, 1, Len(phrase)) = phrase
         \/ ContainsWords(Tail(message), phrase)

\* str.lower() of a word. Of the words that occur in the messages built
\* here, lowering matters for those of the phrases searched for; every other
\* word differs from them in more than its case.
Lower(word) ==
    IF IsInt(word) \/ "w" \notin DOMAIN word THEN word
    ELSE CASE word.w \in {"Already", "ALREADY"} -> W("already")
           [] word.w \in {"Is", "IS"} -> W("is")
           [] word.w \in {"Enabled", "ENABLED"} -> W("enabled")
           [] word.w \in {"Disabled", "DISABLED"} -> W("disabled")
           [] OTHER -> word
LowerAll(message) == [i \in 1..Len(message) |-> Lower(message[i])]

\* any(msg in error_msg for msg in ["already enabled", "is enabled"]) and its
\* counterpart of disable_sast
SaysAlready(operation, message) ==
    LET state == IF operation = "enable_sast" THEN "enabled" ELSE "disabled" IN
    \/ ContainsWords(LowerAll(message), Text(<<"already", state>>))
    \/ ContainsWords(LowerAll(message), Text(<<"is", state>>))

PatchAccepted_not5xx(status) == status < 500
PatchAccepted_only200(status) == status = 200
\* if response.status_code in [200, 201, 204] (lines 280 and 357)
PatchAccepted(status) == status \in {200, 201, 204}

\* The _make_request call of the PATCH has ended: True for an accepted status
\* (whatever the body says) or an error that says "already", False
\* otherwise; an exception that is no SnykAPIError escapes.
Patch_done ==
    /\ op \in {"enable_sast", "disable_sast"} /\ pc = "patch" /\ CallEnded
    /\ IF mr.st = "returned"
       THEN /\ Finish(Returned(PatchAccepted(mr.response.status)))
            /\ console' = console \cup
                  { Line("Response status", {<<mr.response.status>>}),
                    Line(IF PatchAccepted(mr.response.status) THEN "SAST set for"
                                                              ELSE "Failed for", {<<"org">>}) }
       ELSE IF IsSnykAPIError(mr.exc)
       THEN /\ Finish(Returned(SaysAlready(op, mr.exc.message)))
            /\ console' = IF SaysAlready(op, mr.exc.message) THEN console
                           ELSE console \cup {Line("Error for", {<<"org">>})}
       ELSE /\ Finish(Raised(mr.exc))
            /\ UNCHANGED console
    /\ UNCHANGED <<op, mr, wire, resps, sleeps, flag, honest, patches, precheck, patched,
                   walk_vars, page_vars, call_vars>>
    /\ UNCHANGED resolve_vars
    /\ UNCHANGED <<ui, token>>

(***************************************************************************)
(* SnykClient._process_paginated_response                                  *)
(***************************************************************************)
ResolveNext_bare_unprefixed(links) ==
    IF ~links.has_next \/ links.next = <<>> THEN <<>>
    ELSE IF StartsWith(links.next, <<"/">>) THEN api_origin \o links.next
    ELSE IF ~(\/ StartsWith(links.next, <<"h","t","t","p",":","/","/">>)
              \/ StartsWith(links.next, <<"h","t","t","p","s",":","/","/">>))
         THEN api_origin \o <<"/">> \o LStrip(links.next, "/")
    ELSE links.next
ResolveNext_slash_rest(links) ==
    IF ~links.has_next \/ links.next = <<>> THEN <<>>
    ELSE IF StartsWith(links.next, <<"/","r","e","s","t","/">>) THEN api_origin \o links.next
    ELSE IF StartsWith(links.next, <<"/">>) THEN api_rest_base \o links.next
    ELSE IF ~(\/ StartsWith(links.next, <<"h","t","t","p",":","/","/">>)
              \/ StartsWith(links.next, <<"h","t","t","p","s",":","/","/">>))
         THEN api_rest_base \o <<"/">> \o LStrip(links.next, "/")
    ELSE links.next
\* next_url of lines 140-153: empty (None) without a truthy links.next; a
\* value that starts with '/' is put after the origin (both branches of line
\* 147 do the same), another value without a scheme after the REST base and
\* a '/', and an absolute URL is kept.
ResolveNext(links) ==
    IF ~links.has_next \/ links.next = <<>> THEN <<>>
    ELSE IF StartsWith(links.next, <<"/">>) THEN api_origin \o links.next
    ELSE IF ~(\/ StartsWith(links.next, <<"h","t","t","p",":","/","/">>)
              \/ StartsWith(links.next, <<"h","t","t","p","s",":","/","/">>))
         THEN api_rest_base \o <<"/">> \o LStrip(links.next, "/")
    ELSE links.next

\* data.get('links', {}) and data.get(data_key, []) of a parsed body
LinksOf(body) == IF body.kind = "page" THEN body.links ELSE NoNext
DataOf(body) == IF body.kind = "page" THEN body.data ELSE <<>>

\* How _process_paginated_response ends, given the frame its _make_request
\* call ended with: the pair (data, next_url), ([], None) for a 404, or the
\* exception.
ProcessPaginatedResponse(frame) ==
    LET swallow(e) == IF IsSnykAPIError(e) /\ e.status_code = 404
                      THEN Returned([data |-> <<>>, next_url |-> <<>>])
                      ELSE Raised(e) IN
    IF frame.st = "raised" THEN swallow(frame.exc)
    ELSE LET data == HandleResponse(frame.response) IN
         IF data.kind = "raise" THEN swallow(data.exc)
         ELSE IF data.value = None
              \* None.get(...)
              THEN Raised(OtherError("AttributeError"))
         ELSE Returned([data |-> DataOf(data.value),
                        next_url |-> ResolveNext(LinksOf(data.value))])

(***************************************************************************)
(* SnykClient.get_organizations and SnykClient.get_sast_projects           *)
(***************************************************************************)
\* The identifier the listing is asked for, as it appears in messages.
TheId == IdWord(arg[1])

\* The error of the validation that opens both listings (lines 177 and 411).
InvalidIdError(operation, id) ==
    SnykAPIError(IF operation = "get_organizations"
                 THEN Text(<<"Invalid", "Group", "ID", "format:">>) \o <<IdWord(id)>>
                      \o Text(<<"Please", "check", "and", "try", "again.">>)
                 ELSE Text(<<"Invalid", "Organization", "ID", "format:">>)
                      \o <<IdWord(id)>>,
                 NoStatus)

\* The listing is called: an identifier that fails the validation ends it
\* at once with an error, otherwise the seed URL is requested.
Call_listing ==
    /\ pc = "idle"
    /\ \E operation \in Listings, id \in Ids :
          /\ op' = operation /\ arg' = <<id>>
          /\ IF IsValidId(id)
             THEN /\ url' = PageUrl(operation, 1)
                  /\ EnterMakeRequest("GET", PageUrl(operation, 1), headers_rest, NoJson)
                  /\ pc' = "page" /\ ret' = NoRet
             ELSE /\ url' = <<>>
                  /\ pc' = "idle" /\ ret' = Raised(InvalidIdError(operation, id))
                  /\ UNCHANGED <<mr, wire, resps, sleeps>>
    /\ sent' = {}
    /\ acc' = <<>> /\ wait' = 0
    /\ served' = <<>> /\ fetched' = <<>> /\ linked' = <<>> /\ strayed' = FALSE
    /\ honest' = TRUE
    /\ UNCHANGED toggle_vars
    /\ UNCHANGED resolve_vars
    /\ UNCHANGED front_vars

\* The listing ends.
EndListing(result) ==
    /\ ret' = result /\ pc' = "idle"
    /\ UNCHANGED <<mr, wire, resps, sleeps>>

\* The walker goes on to the page at next_url.
NextPage(items, next_url) ==
    /\ acc' = items /\ url' = next_url
    /\ EnterMakeRequest("GET", next_url, headers_rest, NoJson)
    /\ UNCHANGED <<pc, ret>>

Extend_overwrite(all_orgs, orgs_batch) == orgs_batch
\* all_orgs.extend(orgs_batch)
Extend(all_orgs, orgs_batch) == all_orgs \o orgs_batch

\* The except clause of get_organizations (lines 200-211).
WrapOrganizationsError(e) ==
    IF e.status_code = 404
    THEN SnykAPIError(Text(<<"Group", "ID">>) \o <<TheId>>
                      \o Text(<<"is", "not", "valid", "or", "you", "don't", "have",
                                "access", "to", "it.">>), NoStatus)
    ELSE IF e.status_code = 400
    THEN SnykAPIError(Text(<<"Invalid", "Group", "ID", "format:">>) \o <<TheId>>, NoStatus)
    ELSE SnykAPIError(Text(<<"Failed", "to", "fetch", "organizations:">>) \o e.message,
                      NoStatus)

\* One turn of the loop of get_organizations, from the end of the page's
\* _make_request call on, and what follows the loop when it ends.
Page_done_organizations ==
    /\ op = "get_organizations" /\ pc = "page" /\ CallEnded
    /\ LET page == ProcessPaginatedResponse(mr) IN
       IF page.kind = "raise"
       THEN /\ EndListing(Raised(IF IsSnykAPIError(page.exc)
                                 THEN WrapOrganizationsError(page.exc)
                                 ELSE page.exc))
            /\ UNCHANGED <<url, acc>>
       ELSE LET all_orgs == Extend(acc, page.value.data) IN
            IF page.value.next_url # <<>>
            THEN NextPage(all_orgs, page.value.next_url)
            ELSE /\ acc' = all_orgs /\ url' = <<>>
                 /\ IF all_orgs = <<>>
                    THEN EndListing(Raised(WrapOrganizationsError(SnykAPIError(
                             Text(<<"No", "organizations", "found", "for", "Group", "ID:">>)
                             \o <<TheId>>, NoStatus))))
                    ELSE EndListing(Returned(all_orgs))
    /\ UNCHANGED <<op, wait, honest, toggle_vars, page_vars, call_vars>>
    /\ UNCHANGED resolve_vars
    /\ UNCHANGED front_vars

\* str.replace('[', '(').replace(']', ')')
ReplaceBrackets(str) ==
    [i \in 1..Len(str) |-> IF str[i] = "[" THEN "("
                           ELSE IF str[i] = "]" THEN ")" ELSE str[i]]

\* sanitize_project_data: the vendor's items carry neither created nor status.
sanitize_project_data(project) ==
    [id |-> project.id, name |-> ReplaceBrackets(project.name),
     created |-> None, org_id |-> "o", type |-> project.type, status |-> ""]

SastOf_unfiltered(projects_batch) ==
    [i \in 1..Len(projects_batch) |-> sanitize_project_data(projects_batch[i])]
\* The "sast" items of a batch, sanitized, in the order of the batch.
SastOf(projects_batch) ==
    LET sast == SelectSeq(projects_batch, LAMBDA project : project.type = "sast") IN
    [i \in 1..Len(sast) |-> sanitize_project_data(sast[i])]

\* str(e).split()[-2] of line 452
WaitWord(message) == message[Len(message) - 1]

\* The except clause that ends get_sast_projects (lines 479-482).
WrapProjectsError(e) ==
    SnykAPIError(Text(<<"Error", "fetching", "SAST", "projects", "for", "org">>)
                 \o <<TheId>> \o e.message, NoStatus)

\* One turn of the loop of get_sast_projects, from the end of the page's
\* _make_request call on, and what follows the loop when it ends.
Page_done_projects ==
    /\ op = "get_sast_projects" /\ pc = "page" /\ CallEnded
    /\ LET page == ProcessPaginatedResponse(mr) IN
       IF page.kind = "return"
       THEN /\ LET sast_projects == acc \o SastOf(page.value.data) IN
               IF page.value.next_url # <<>>
               THEN NextPage(sast_projects, page.value.next_url)
               ELSE /\ acc' = sast_projects /\ url' = <<>>
                    /\ EndListing(Returned(sast_projects))
            /\ UNCHANGED wait
       ELSE IF page.exc.type = "RateLimitExceededError"
       THEN IF IsInt(WaitWord(page.exc.message))
            \* time.sleep(retry_after + 1), then the same url again
            THEN /\ wait' = WaitWord(page.exc.message).n + 1
                 /\ EnterMakeRequest("GET", url, headers_rest, NoJson)
                 /\ UNCHANGED <<pc, ret, url, acc>>
            \* int() raises ValueError inside the handler
            ELSE /\ EndListing(Raised(WrapProjectsError(OtherError("ValueError"))))
                 /\ UNCHANGED <<url, acc, wait>>
       ELSE IF IsSnykAPIError(page.exc) /\ page.exc.status_code = 404
       THEN /\ EndListing(Returned(acc))
            /\ UNCHANGED <<url, acc, wait>>
       ELSE /\ EndListing(Raised(WrapProjectsError(page.exc)))
            /\ UNCHANGED <<url, acc, wait>>
    /\ UNCHANGED <<op, honest, toggle_vars, page_vars, call_vars>>
    /\ UNCHANGED resolve_vars
    /\ UNCHANGED front_vars

(***************************************************************************)
(* A direct call of _make_request, as cli.py makes it for an organization. *)
(***************************************************************************)
Call_make_request ==
    /\ pc = "idle"
    /\ op' = "make_request" /\ pc' = "request"
    /\ ret' = NoRet
    /\ EnterMakeRequest("GET", org_url, headers_rest, NoJson)
    /\ arg' = NoArg /\ sent' = {}
    /\ UNCHANGED <<honest, toggle_vars, walk_vars, page_vars>>
    /\ UNCHANGED resolve_vars
    /\ UNCHANGED front_vars

Done_make_request ==
    /\ op = "make_request" /\ pc = "request" /\ mr.st \in {"returned", "raised"}
    /\ ret' = IF mr.st = "returned" THEN Returned(mr.response) ELSE Raised(mr.exc)
    /\ pc' = "idle"
    /\ UNCHANGED <<op, mr, wire, resps, sleeps, honest, toggle_vars, walk_vars, page_vars,
                   call_vars>>
    /\ UNCHANGED resolve_vars
    /\ UNCHANGED front_vars

(***************************************************************************)
(* SnykClient.get_sast_settings called by itself, as cli.py calls it for   *)
(* its audit, and SnykClient.delete_project.                               *)
(***************************************************************************)
Call_get_sast_settings ==
    /\ pc = "idle"
    /\ op' = "get_sast_settings" /\ pc' = "settings"
    /\ ret' = NoRet
    /\ \E org_id \in Ids : arg' = <<org_id>>
    /\ sent' = {}
    /\ EnterMakeRequest("GET", settings_url, headers_rest, NoJson)
    /\ UNCHANGED <<honest, toggle_vars, walk_vars, page_vars>>
    /\ UNCHANGED resolve_vars
    /\ UNCHANGED front_vars

Done_get_sast_settings ==
    /\ op = "get_sast_settings" /\ pc = "settings" /\ CallEnded
    /\ ret' = GetSastSettings(mr)
    /\ pc' = "idle"
    /\ UNCHANGED <<op, mr, wire, resps, sleeps, honest, toggle_vars, walk_vars, page_vars,
                   call_vars>>
    /\ UNCHANGED resolve_vars
    /\ UNCHANGED front_vars

\* delete_project sends the DELETE at once.
Call_delete_project ==
    /\ pc = "idle"
    /\ op' = "delete_project" /\ pc' = "delete"
    /\ ret' = NoRet
    /\ \E org_id \in Ids, project_id \in Ids : arg' = <<org_id, project_id>>
    /\ sent' = {}
    /\ EnterMakeRequest("DELETE", project_url, headers_rest, NoJson)
    /\ UNCHANGED <<honest, toggle_vars, walk_vars, page_vars>>
    /\ UNCHANGED resolve_vars
    /\ UNCHANGED front_vars

\* How delete_project ends, given the frame its _make_request call ended
\* with: what _handle_response returns is dropped and True is returned.
DeleteProject(frame) ==
    IF frame.st = "raised" THEN Raised(frame.exc)
    ELSE LET data == HandleResponse(frame.response) IN
         IF data.kind = "raise" THEN data ELSE Returned(TRUE)

Done_delete_project ==
    /\ op = "delete_project" /\ pc = "delete" /\ CallEnded
    /\ ret' = DeleteProject(mr)
    /\ pc' = "idle"
    /\ UNCHANGED <<op, mr, wire, resps, sleeps, honest, toggle_vars, walk_vars, page_vars,
                   call_vars>>
    /\ UNCHANGED resolve_vars
    /\ UNCHANGED front_vars

InitCommon ==
    /\ op = "none" /\ pc = "idle" /\ ret = NoRet
    /\ mr = IdleFrame
    /\ wire = <<>> /\ resps = <<>> /\ sleeps = <<>>
    /\ calls = <<>> /\ patches = 0 /\ honest = TRUE
    /\ precheck = "none" /\ patched = FALSE
    /\ url = <<>> /\ acc = <<>> /\ wait = 0
    /\ served = <<>> /\ fetched = <<>> /\ linked = <<>> /\ strayed = FALSE
    /\ arg = NoArg /\ sent = {}
    /\ console = {}
InitNoResolve == next_in = <<>> /\ next_out = <<>>
\* The client is driven by no front end; its token is the first one.
NoUi == [kind |-> "none"]
Tokens == {"t1", "t2"}
InitNoFront == ui = NoUi /\ token = "t1"

InitTransport == InitCommon /\ InitNoResolve /\ InitNoFront /\ flag = FALSE

NextTransport ==
    \/ Call_make_request
    \/ MR_Response
    \/ MR_ConnectionError
    \/ MR_RequestException
    \/ Done_make_request

SpecTransport == InitTransport /\ [][NextTransport]_vars

InitToggle == InitCommon /\ InitNoResolve /\ InitNoFront /\ flag \in BOOLEAN

NextToggle ==
    \/ Call_toggle
    \/ MR_Response
    \/ MR_ConnectionError
    \/ MR_RequestException
    \/ Precheck_done
    \/ Patch_done

SpecToggle == InitToggle /\ [][NextToggle]_vars

\* The toggles of a client constructed with any of the tokens.
InitConsole == InitCommon /\ InitNoResolve /\ ui = NoUi /\ token \in Tokens /\ flag \in BOOLEAN
SpecConsole == InitConsole /\ [][NextToggle]_vars

InitWalk == InitCommon /\ InitNoResolve /\ InitNoFront /\ flag = FALSE

NextWalk ==
    \/ Call_listing
    \/ MR_Response
    \/ MR_ConnectionError
    \/ MR_RequestException
    \/ Page_done_organizations
    \/ Page_done_projects

SpecWalk == InitWalk /\ [][NextWalk]_vars

\* Why the listing that has just ended with an error failed: the argument
\* was refused, the transport gave up, the rate limit outlasted the retries,
\* or the vendor answered 400 or 404; "other" for every other failure.
ErrorKind ==
    IF ~IsValidId(arg[1]) THEN "invalid_argument"
    ELSE IF mr.st = "raised" /\ IsSnykAPIError(mr.exc) THEN "transport"
    ELSE IF mr.st = "returned" /\ mr.response.status = 429 THEN "rate_limit"
    ELSE IF mr.st = "returned" /\ mr.response.status \in {400, 404} THEN "vendor"
    ELSE "other"
\* A caller in `except SnykAPIError as e`: what it can branch on is the
\* exception's type and its status_code. `caught` keeps, for each error
\* caught so far, that pair together with the kind of the failure.
Caller_catch ==
    /\ op \in Listings /\ pc = "idle" /\ ret.kind = "raise" /\ IsSnykAPIError(ret.exc)
    /\ ErrorKind # "other"
    /\ LET e == [kind |-> ErrorKind, type |-> ret.exc.type,
                 status_code |-> ret.exc.status_code] IN
       /\ e \notin ui.caught
       /\ ui' = [ui EXCEPT !.caught = @ \cup {e}]
    /\ UNCHANGED <<op, pc, ret, mr, wire, resps, sleeps, honest, toggle_vars, walk_vars,
                   page_vars, resolve_vars, call_vars, console, token>>

\* The listings with a caller that catches their errors.
InitErrors ==
    /\ InitCommon /\ InitNoResolve /\ flag = FALSE
    /\ ui = [kind |-> "caller", caught |-> {}] /\ token = "t1"
NextErrors == NextWalk \/ Caller_catch
SpecErrors == InitErrors /\ [][NextErrors]_vars

InitGateway == InitCommon /\ InitNoResolve /\ InitNoFront /\ flag \in BOOLEAN

NextGateway ==
    \/ Call_get_sast_settings
    \/ Call_delete_project
    \/ MR_Response
    \/ MR_ConnectionError
    \/ MR_RequestException
    \/ Done_get_sast_settings
    \/ Done_delete_project

SpecGateway == InitGateway /\ [][NextGateway]_vars

(***************************************************************************)
(* cli.py: the command `disable`, which drives SnykSASTTool.disable_sast   *)
(* and through it SnykClient.disable_sast.                                 *)
(***************************************************************************)
\* An organization as the commands hold it: {'id': ..., 'name': ...}; of the
\* name only whether it is empty matters.
Org(id, named) == [id |-> id, named |-> named]
\* The identifier of the o-th organization of a list.
OrgIdOf(o) == [i \in 1..MinIdLen |-> Digit(o)]
\* What _read_orgs_from_file yields for a file in the format the command
\* documents ("org_id,org_name" per line, the name optional): the listed
\* organizations, at least one, each with an identifier of its own.
read_orgs_from_file ==
    UNION {{[o \in 1..n |-> Org(OrgIdOf(o), named[o])] : named \in [1..n -> BOOLEAN]} :
              n \in 1..MaxOrgs}

\* The command has not been run.
CliStart ==
    [kind |-> "cli", at |-> "start", mode |-> "none", skip_confirm |-> FALSE,
     answer |-> "none", orgs |-> <<>>, i |-> 1, success_count |-> 0, trues |-> 0,
     reported |-> <<>>]

\* What no step of the command touches.
CliFrame == UNCHANGED <<honest, flag, patches, walk_vars, page_vars, resolve_vars, token>>
\* The client is not called in this step.
ClientIdle == UNCHANGED <<op, pc, ret, mr, wire, resps, sleeps, calls, precheck, patched,
                          call_vars, console>>

\* self.client._make_request('GET', org_url, headers=self.client.headers_rest),
\* the request for the organization's name (cli.py lines 74 and 312).
FetchName(org_id) ==
    /\ op' = "org_name" /\ pc' = "name" /\ ret' = NoRet
    /\ arg' = <<org_id>> /\ sent' = {}
    /\ EnterMakeRequest("GET", org_url, headers_rest, NoJson)
    /\ UNCHANGED <<calls, precheck, patched, console>>

\* self.client.disable_sast(org_id) (cli.py line 86): its first step.
CallDisableSast(org_id) ==
    /\ op' = "disable_sast" /\ calls' = Append(calls, NewCall("disable_sast"))
    /\ arg' = <<org_id>> /\ sent' = {}
    /\ pc' = "precheck" /\ ret' = NoRet
    /\ precheck' = "none" /\ patched' = FALSE
    /\ EnterMakeRequest("GET", settings_url, headers_rest, NoJson)
    /\ console' = {}

\* SnykSASTTool.disable_sast(org_id, org_name) up to its first request: the
\* name is fetched when none was given (lines 70-74), else the client is
\* called. The commands pass no empty org_id (lines 63-65 do not apply).
ToolDisableSast(org) ==
    IF org.named THEN CallDisableSast(org.id) ELSE FetchName(org.id)

\* The command starts (lines 269-289 and 304-312): with --file the
\* organizations are read and, unless --yes was given, the confirmation is
\* asked for; with a single ORG_ID its name is requested, --yes or not.
Cli_disable ==
    /\ ui.at = "start" /\ pc = "idle"
    /\ \E skip_confirm \in BOOLEAN :
          \/ \E orgs \in read_orgs_from_file :
                /\ ui' = [ui EXCEPT !.mode = "file", !.skip_confirm = skip_confirm,
                                    !.orgs = orgs,
                                    !.at = IF skip_confirm THEN "loop" ELSE "confirm"]
                /\ ClientIdle
          \/ \E org_id \in Ids :
                IF org_id = <<>>
                THEN /\ ui' = [ui EXCEPT !.mode = "single", !.skip_confirm = skip_confirm,
                                         !.at = "done"]
                     /\ ClientIdle
                ELSE /\ ui' = [ui EXCEPT !.mode = "single", !.skip_confirm = skip_confirm,
                                         !.orgs = <<Org(org_id, FALSE)>>, !.at = "cli_name"]
                     /\ FetchName(org_id)
    /\ CliFrame

\* typer.confirm (lines 286-288): the user answers; "no" ends the command.
Cli_confirm ==
    /\ ui.at = "confirm"
    /\ \E yes \in BOOLEAN :
          ui' = [ui EXCEPT !.answer = IF yes THEN "yes" ELSE "no",
                           !.at = IF yes THEN "loop" ELSE "done"]
    /\ ClientIdle
    /\ CliFrame

\* The loop over the organizations (lines 291-293) and what follows it
\* (line 299): tool.disable_sast is called for the next one, or the count
\* is reported.
Cli_next_org ==
    /\ ui.at = "loop" /\ pc = "idle"
    /\ IF ui.i <= Len(ui.orgs)
       THEN /\ ui' = [ui EXCEPT !.at = "tool"]
            /\ ToolDisableSast(ui.orgs[ui.i])
       ELSE /\ ui' = [ui EXCEPT !.at = "done", !.reported = <<ui.success_count>>]
            /\ ClientIdle
    /\ CliFrame

\* The request for the name has ended. In the command's own request (lines
\* 313-318) the name stays empty unless the answer is a 200 with a body that
\* carries one, and tool.disable_sast is called with it; in
\* SnykSASTTool.disable_sast (lines 75-82) a placeholder stands in for a
\* missing name and the client is called.
Cli_name_done ==
    /\ op = "org_name" /\ pc = "name" /\ CallEnded
    /\ IF ui.at = "cli_name"
       THEN \E named \in (IF /\ mr.st = "returned" /\ mr.response.status = 200
                             /\ mr.response.body # NoBody
                          THEN BOOLEAN ELSE {FALSE}) :
               /\ ui' = [ui EXCEPT !.at = "tool", !.orgs = <<Org(arg[1], named)>>]
               /\ ToolDisableSast(Org(arg[1], named))
       ELSE /\ CallDisableSast(arg[1])
            /\ UNCHANGED ui
    /\ CliFrame

\* self.client.disable_sast has ended, and with it SnykSASTTool.disable_sast
\* (lines 87-98): it returns what the client returned and False when the
\* client raised. The loop adds one to success_count whenever the call did
\* not raise (lines 293-295), which it never does.
Cli_disable_done ==
    /\ ui.at = "tool" /\ op = "disable_sast" /\ pc = "idle"
    /\ LET success == IF ret.kind = "return" THEN ret.value ELSE FALSE IN
       ui' = IF ui.mode = "file"
             THEN [ui EXCEPT !.at = "loop", !.i = @ + 1,
                             !.success_count = @ + 1,
                             !.trues = IF success THEN @ + 1 ELSE @]
             ELSE [ui EXCEPT !.at = "done",
                             !.trues = IF success THEN @ + 1 ELSE @]
    /\ ClientIdle
    /\ CliFrame

InitCli ==
    /\ InitCommon /\ InitNoResolve /\ flag \in BOOLEAN
    /\ ui = CliStart /\ token = "t1"
NextCli ==
    \/ Cli_disable \/ Cli_confirm \/ Cli_next_org \/ Cli_name_done \/ Cli_disable_done
    \/ MR_Response \/ MR_ConnectionError \/ MR_RequestException
    \/ Precheck_done \/ Patch_done
SpecCli == InitCli /\ [][NextCli]_vars

(***************************************************************************)
(* menu.py: show_delete_projects_menu, the interactive delete workflow,    *)
(* which drives SnykClient.delete_project.                                 *)
(***************************************************************************)
\* A project is known by its owner and its number among the owner's
\* projects: <<o, k>> is the k-th project of the o-th organization.
OwnerOf(p) == p[1]
\* The identifier of the project, as a string.
ProjectIdOf(p) == <<"p", Digit(p[1]), Digit(p[2])>>

\* The workflow has not been run.
MenuStart ==
    [kind |-> "menu", at |-> "start", orgs |-> <<>>, project_ids |-> <<>>,
     todo |-> <<>>, deletes |-> <<>>, success |-> 0, reported |-> <<>>]

\* The sequences of `choices` in which the user may enter them: without
\* repetition, in the order listed (a sub-sequence that is not empty).
RECURSIVE SubSeqs(_)
SubSeqs(choices) ==
    IF choices = <<>> THEN {<<>>}
    ELSE LET rest == SubSeqs(Tail(choices)) IN
         rest \cup {<<Head(choices)>> \o r : r \in rest}

\* for pid in project_ids: for org in orgs: org_projects[org['id']].append(pid),
\* then for org_id, pids in org_projects.items(): for pid in pids (lines
\* 892-906): the (org_id, pid) pairs in the order delete_project is called
\* for them. Every organization is given every selected project.
RECURSIVE DeletionPlan(_, _)
DeletionPlan(orgs, project_ids) ==
    IF orgs = <<>> THEN <<>>
    ELSE [i \in 1..Len(project_ids) |-> <<Head(orgs), project_ids[i]>>]
         \o DeletionPlan(Tail(orgs), project_ids)

\* The workflow up to the confirmed selection (lines 666-872). The
\* organizations are the one entered or those of the file; what
\* get_sast_projects returned for each (SpecWalk covers how) is drawn: up to
\* MaxProjects projects of its own. The user deletes all of them or selects
\* some, and confirms. `orgs` keeps the organizations by their place in the
\* list.
Menu_select ==
    /\ ui.at = "start" /\ pc = "idle"
    /\ \E orgs \in read_orgs_from_file :
       \E count \in [1..Len(orgs) -> 0..MaxProjects] :
          LET all_projects ==
                  LET RECURSIVE Listed(_)
                      Listed(o) ==
                          IF o > Len(orgs) THEN <<>>
                          ELSE [k \in 1..count[o] |-> <<o, k>>] \o Listed(o + 1)
                  IN Listed(1)
          IN \E project_ids \in SubSeqs(all_projects) \ {<<>>} :
                ui' = [ui EXCEPT !.at = "delete",
                                 !.orgs = [o \in 1..Len(orgs) |-> o],
                                 !.project_ids = project_ids,
                                 !.todo = DeletionPlan([o \in 1..Len(orgs) |-> o],
                                                       project_ids)]
    /\ ClientIdle
    /\ CliFrame

\* The deletion loop (lines 903-909) and what follows it (line 922):
\* tool.client.delete_project is called for the next pair, or the count is
\* reported.
Menu_delete_next ==
    /\ ui.at = "delete" /\ pc = "idle"
    /\ IF ui.todo # <<>>
       THEN LET org == Head(ui.todo)[1]
                pid == Head(ui.todo)[2] IN
            /\ ui' = [ui EXCEPT !.at = "call", !.deletes = Append(@, Head(ui.todo))]
            /\ op' = "delete_project" /\ pc' = "delete" /\ ret' = NoRet
            /\ arg' = <<OrgIdOf(org), ProjectIdOf(pid)>> /\ sent' = {}
            /\ EnterMakeRequest("DELETE", project_url, headers_rest, NoJson)
            /\ UNCHANGED <<calls, precheck, patched, console>>
       ELSE /\ ui' = [ui EXCEPT !.at = "done",
                                !.reported = <<ui.success, Len(ui.project_ids)>>]
            /\ ClientIdle
    /\ CliFrame

\* delete_project has ended: success += 1 unless it raised (lines 907-909).
Menu_delete_done ==
    /\ ui.at = "call" /\ op = "delete_project" /\ pc = "idle"
    /\ ui' = [ui EXCEPT !.at = "delete", !.todo = Tail(@),
                        !.success = IF ret.kind = "raise" THEN @ ELSE @ + 1]
    /\ ClientIdle
    /\ CliFrame

InitMenu ==
    /\ InitCommon /\ InitNoResolve /\ flag = FALSE
    /\ ui = MenuStart /\ token = "t1"
NextMenu ==
    \/ Menu_select \/ Menu_delete_next \/ Menu_delete_done
    \/ MR_Response \/ MR_ConnectionError \/ MR_RequestException
    \/ Done_delete_project
SpecMenu == InitMenu /\ [][NextMenu]_vars

(***************************************************************************)
(* The resolution of links.next by itself: a resource is drawn and a link  *)
(* to it in each shape is resolved as _process_paginated_response does.    *)
(***************************************************************************)
SuffixChars == {"o", "/", "?"}
\* Resource names: some characters, after nothing, a '/', a scheme or "rest/".
Suffixes ==
    {head \o tail :
        head \in {<<>>, <<"/">>, <<"r","e","s","t","/">>,
                  <<"h","t","t","p",":","/","/">>, <<"h","t","t","p","s",":","/","/">>},
        tail \in UNION {[1..n -> SuffixChars] : n \in 0..MaxSuffixLen}}

InitResolve ==
    /\ InitCommon /\ InitNoFront /\ flag = FALSE
    /\ next_in \in Suffixes
    /\ next_out = <<>>

\* A page arrives whose links.next is the link to the resource in one shape.
Resolve ==
    /\ \E shape \in LinkShapes \ DOMAIN next_out :
          next_out' = (shape :> ResolveNext(Next_(LinkTo(shape, next_in)))) @@ next_out
    /\ UNCHANGED <<op, pc, ret, mr, wire, resps, sleeps, honest, toggle_vars, walk_vars,
                   page_vars, call_vars, front_vars, next_in>>

NextResolve == Resolve

SpecResolve == InitResolve /\ [][NextResolve]_vars

(***************************************************************************)
(* Properties of _make_request.                                            *)
(***************************************************************************)
\* C8: when the responses of a call are [429 with Retry-After: 2, then 200],
\* the call sends two requests (one retry), sleeps once, for at least 2
\* seconds, and returns the 200 response: nothing is raised.
C8_OneRetryAfter429 ==
    (/\ Len(resps) >= 2
     /\ resps[1] = Response(429, N(2), ErrorBody)
     /\ resps[2].exc = "none" /\ resps[2].status = 200)
    => /\ mr.st = "returned" /\ mr.response = resps[2]
       /\ Len(wire) = 2
       /\ Len(sleeps) = 1 /\ sleeps[1] >= 2

C8_Witness ==
    /\ Len(resps) = 2
    /\ resps[1] = Response(429, N(2), ErrorBody)
    /\ resps[2].exc = "none" /\ resps[2].status = 200
    /\ mr.st = "returned"

\* An attempt that ended in a connection failure, a timeout or an HTTP 429.
IsTransient(outcome) ==
    \/ outcome.exc \in {"ConnectionError", "Timeout"}
    \/ outcome.exc = "none" /\ outcome.status = 429

\* C9: a call whose max_retries+1 attempts all ended in a connection failure,
\* a timeout or a 429 (with a Retry-After that int() accepts, or none) ends
\* by raising a SnykAPIError, and does not return a response.
C9_ExhaustedRetriesRaise ==
    (/\ Len(resps) = MaxRetries + 1
     /\ \A i \in 1..Len(resps) :
            IsTransient(resps[i]) /\ AdvisedWaitReadable(resps[i]))
    => /\ mr.st = "raised"
       /\ IsSnykAPIError(mr.exc)

\* C10: a call sends at most max_retries+1 requests, 4 with the default, and
\* when it has sent that many it has returned or raised.
C10_BoundedAttempts ==
    /\ Len(wire) <= MaxRetries + 1
    /\ Len(wire) <= 4
    /\ Len(wire) = MaxRetries + 1 => CallEnded

C10_Witness ==
    /\ Len(wire) = MaxRetries + 1
    /\ mr.st = "returned"
    /\ \A i \in 1..Len(resps) : IsTransient(resps[i]) \/ resps[i].exc # "none"

(***************************************************************************)
(* Properties of enable_sast and disable_sast.                             *)
(***************************************************************************)
\* A toggle has just ended.
Toggles == {"enable_sast", "disable_sast"}
ToggleEnded == op \in Toggles /\ pc = "idle"

\* C1: whenever enable_sast or disable_sast returns True, the vendor's flag
\* has the desired value at that moment: true after enable, false after
\* disable.
C1_TrueMeansFlagSet ==
    (ToggleEnded /\ ret = Returned(TRUE)) => flag = Desired(op)

\* C2: an operation whose pre-check read failed has sent the PATCH by the
\* time it ends.
C2_FailedPrecheckStillPatches ==
    (ToggleEnded /\ precheck = "failed") => patched

\* Two calls of enable_sast in a row on an organization that started
\* disabled have ended, and every request was answered with a success status.
TwoEnablesAnswered ==
    /\ ToggleEnded /\ Len(calls) = 2
    /\ calls[1].op = "enable_sast" /\ calls[2].op = "enable_sast"
    /\ calls[1].flag_before = FALSE
    /\ honest

\* C3: two calls of enable_sast in a row on an organization that starts
\* disabled, each request answered with a success status, send one PATCH in
\* total: the second call sends none and returns True.
C3_SecondEnableSendsNoPatch ==
    TwoEnablesAnswered
    => /\ patches = 1
       /\ ~patched
       /\ ret = Returned(TRUE)

C3_Witness ==
    /\ TwoEnablesAnswered
    /\ calls[1].result = Returned(TRUE)
    /\ patches = 1

(***************************************************************************)
(* Properties of the listings.                                             *)
(***************************************************************************)
\* C4: when a page request of get_sast_projects has ended in a rate-limit
\* error (429 after the retries of _make_request), the listing is still in
\* progress: the page is requested again and the listing does not end there.
C4_RateLimitedPageRetried ==
    (/\ op = "get_sast_projects"
     /\ mr.st = "returned" /\ mr.response.status = 429
     /\ AdvisedWaitReadable(mr.response))
    => pc = "page"

\* C5: within one listing no page URL is served twice: a URL that was
\* fetched successfully is not requested again.
C5_NoPageFetchedTwice ==
    \A i, j \in 1..Len(fetched) : i < j => fetched[i] # fetched[j]

\* C6: a get_organizations whose page requests all succeeded and whose
\* pages hold at least one item returns the items of the pages served, in
\* the order served, each page being the one the page before it linked to
\* and the last one linking to none.
C6_ConcatenationInOrder ==
    (/\ op = "get_organizations" /\ pc = "idle" /\ ret # NoRet
     /\ honest /\ served # <<>>)
    => /\ ret = Returned(served)
       /\ ~strayed
       /\ linked = <<>>

C6_Witness ==
    /\ op = "get_organizations" /\ pc = "idle" /\ ret # NoRet
    /\ honest
    /\ Len(fetched) >= 2 /\ fetched[1] # fetched[2]
    /\ Len(served) >= 3
    /\ ret = Returned(served)

(***************************************************************************)
(* Properties of the resolution of links.next.                             *)
(***************************************************************************)
\* A resource name as the claim means it: not empty, not starting with the
\* path separator and not starting with a scheme, so that written by itself
\* it is a bare relative path.
IsBareSuffix(x) ==
    /\ x # <<>>
    /\ ~StartsWith(x, <<"/">>)
    /\ ~StartsWith(x, <<"h","t","t","p",":","/","/">>)
    /\ ~StartsWith(x, <<"h","t","t","p","s",":","/","/">>)

\* C7: the absolute URL 'https://api.snyk.io/rest/X', the prefixed path
\* '/rest/X' and the bare path 'X' are all resolved to
\* 'https://api.snyk.io/rest/X'.
C7_ThreeShapesOneUrl ==
    IsBareSuffix(next_in)
    => \A shape \in DOMAIN next_out \cap {"absolute", "prefixed", "bare"} :
           next_out[shape] = api_rest_base \o <<"/">> \o next_in

C7_Witness ==
    /\ IsBareSuffix(next_in)
    /\ StartsWith(next_in, <<"r","e","s","t","/">>)
    /\ {"absolute", "prefixed", "bare"} \subseteq DOMAIN next_out

(***************************************************************************)
(* Properties of the gateway operations and of the error boundary.         *)
(***************************************************************************)
\* C11: every exception that leaves _make_request is a SnykAPIError or its
\* subclass, and so is every exception that leaves _handle_response, which
\* delete_project lets through as it is: whatever the status, the body, the
\* Retry-After header and the exception of the transport library.
C11_OnlySnykAPIErrorsEscape ==
    /\ mr.st = "raised" => IsSnykAPIError(mr.exc)
    /\ (op = "delete_project" /\ pc = "idle" /\ ret.kind = "raise")
       => IsSnykAPIError(ret.exc)

\* The operation was called with an identifier that is empty, or with an
\* organization or group identifier (the first argument) shorter than
\* MinIdLen characters.
CalledWithInvalidId ==
    /\ arg # NoArg
    /\ \/ ~IsValidId(arg[1])
       \/ \E i \in 1..Len(arg) : arg[i] = <<>>

\* C12: an operation called with an empty or too short identifier sends no
\* HTTP request, and ends by raising a SnykAPIError.
C12_InvalidIdSendsNothing ==
    CalledWithInvalidId
    => /\ sent = {}
       /\ pc = "idle" => (ret.kind = "raise" /\ IsSnykAPIError(ret.exc))

\* The read of get_sast_settings succeeded: a response with a 2xx status.
FetchSucceeded == mr.st = "returned" /\ IsSuccess(mr.response.status)

\* C13: get_sast_settings ends by returning a record with the field
\* sast_enabled, never by raising, and the field is false whenever the read
\* did not succeed (404 included).
C13_SettingsNeverRaise ==
    (op = "get_sast_settings" /\ pc = "idle" /\ ret # NoRet)
    => /\ ret.kind = "return"
       /\ "sast_enabled" \in DOMAIN ret.value
       /\ ~FetchSucceeded => ~ret.value.sast_enabled

\* C18: delete_project returns True when the response its request ended with
\* has a 2xx status, and raises a SnykAPIError in every other case (another
\* status, or a transport failure after the retries).
C18_DeleteTrueIffSuccess ==
    (op = "delete_project" /\ pc = "idle" /\ ret # NoRet)
    => IF mr.st = "returned" /\ IsSuccess(mr.response.status)
       THEN ret = Returned(TRUE)
       ELSE ret.kind = "raise" /\ IsSnykAPIError(ret.exc)

\* C19: an operation that has sent a PATCH or a DELETE has sent a GET before
\* it (the property holds in the state the mutation is sent in, so the GET
\* came first).
C19_ReadBeforeMutation ==
    (sent \cap {"PATCH", "DELETE"} # {}) => "GET" \in sent

(***************************************************************************)
(* Properties of get_sast_projects.                                        *)
(***************************************************************************)
\* The positions of the "sast" items among the first k items served.
SastUpTo(k) == {j \in 1..k : served[j].type = "sast"}

\* `out` is `name` with every '[' turned into '(' and every ']' into ')'.
BracketsReplaced(name, out) ==
    /\ Len(out) = Len(name)
    /\ \A i \in 1..Len(name) :
          /\ name[i] = "[" => out[i] = "("
          /\ name[i] = "]" => out[i] = ")"
          /\ name[i] \notin {"[", "]"} => out[i] = name[i]

\* C14: the list get_sast_projects returns holds as many items as "sast"
\* items were served; the n-th "sast" item served is the n-th item
\* returned, with its brackets replaced; nothing of another type is in it.
C14_OnlySastItemsInOrder ==
    (op = "get_sast_projects" /\ pc = "idle" /\ ret.kind = "return")
    => /\ Len(ret.value) = Cardinality(SastUpTo(Len(served)))
       /\ \A i \in 1..Len(ret.value) : ret.value[i].type = "sast"
       /\ \A k \in SastUpTo(Len(served)) :
             LET item == ret.value[Cardinality(SastUpTo(k))] IN
             /\ item.id = served[k].id
             /\ BracketsReplaced(served[k].name, item.name)

C14_Witness ==
    /\ op = "get_sast_projects" /\ pc = "idle" /\ ret.kind = "return"
    /\ Len(fetched) >= 2 /\ fetched[1] # fetched[2]
    /\ \E j, k \in 1..Len(served) : served[j].type = "sast" /\ served[k].type # "sast"
    /\ Len(ret.value) >= 2
    /\ \E i \in 1..Len(ret.value) : ret.value[i].name[2] = "("

(***************************************************************************)
(* Properties of the PATCH of enable_sast and disable_sast.                *)
(***************************************************************************)
\* A toggle has ended whose PATCH call returned a response to it.
PatchAnswered == ToggleEnded /\ patched /\ mr.method = "PATCH" /\ mr.st = "returned"

\* The body of the PATCH's response says the flag already has the desired value.
DetailSaysAlready ==
    /\ "detail" \in DOMAIN mr.response.body
    /\ SaysAlready(op, mr.response.body.detail)

C16_AlreadyMeansTrue ==
    (PatchAnswered /\ ~IsSuccess(mr.response.status) /\ DetailSaysAlready)
    => ret = Returned(TRUE)

\* C17, as claimed: a toggle whose PATCH was answered with a status from 200
\* to 299 returns True, whatever the body.
C17_Any2xxPatchTrue ==
    (PatchAnswered /\ IsSuccess(mr.response.status)) => ret = Returned(TRUE)

\* C17, amended: a toggle whose PATCH was answered with the status 200, 201
\* or 204 returns True, whether the body echoes the new value, another
\* value or nothing.
C17_AcceptedPatchTrue ==
    (PatchAnswered /\ mr.response.status \in {200, 201, 204})
    => ret = Returned(TRUE)

C17_Witness ==
    /\ PatchAnswered /\ mr.response.status = 201
    /\ mr.response.body = SettingsBody(~Desired(op))
    /\ ret = Returned(TRUE)

(***************************************************************************)
(* Properties of get_organizations.                                        *)
(***************************************************************************)
\* get_organizations, called with a well-formed group id, has ended.
OrganizationsEnded ==
    /\ op = "get_organizations" /\ pc = "idle" /\ ret # NoRet
    /\ IsValidId(arg[1])

\* The exception is a SnykAPIError whose message holds the group id.
EmbedsGroupId(e) ==
    /\ IsSnykAPIError(e)
    /\ \E i \in 1..Len(e.message) : e.message[i] = IdWord(arg[1])

\* C20: get_organizations called with a well-formed group id ends either by
\* returning a list that is not empty or by raising a SnykAPIError whose
\* message holds the group id; it raises when its last request was answered
\* 404 or 400.
C20_NonEmptyOrIdError ==
    OrganizationsEnded
    => /\ \/ ret.kind = "return" /\ ret.value # <<>>
          \/ ret.kind = "raise" /\ EmbedsGroupId(ret.exc)
       /\ (mr.st = "returned" /\ mr.response.status \in {400, 404})
          => ret.kind = "raise"

(***************************************************************************)
(* Further properties of the listings, the transport and the settings.    *)
(***************************************************************************)
\* A page request of get_sast_projects has just been answered 404.
PageAnswered404 ==
    /\ op = "get_sast_projects" /\ pc = "page"
    /\ mr.st = "returned" /\ mr.response.status = 404

\* C21: when a page request of get_sast_projects is answered 404, the next
\* step ends the operation: it returns the accumulated items, which are the
\* "sast" items of the pages served before, and sends no further request.
C21_NotFoundEndsListing ==
    [][PageAnswered404
       => /\ pc' = "idle"
          /\ ret' = Returned(acc)
          /\ Len(acc) = Cardinality(SastUpTo(Len(served)))
          /\ mr' = mr /\ fetched' = fetched]_vars

C21_Witness ==
    /\ op = "get_sast_projects" /\ pc = "idle"
    /\ mr.st = "returned" /\ mr.response.status = 404
    /\ Len(fetched) >= 1
    /\ ret = Returned(acc) /\ acc # <<>>

\* C23: every request of a _make_request call goes out with the headers of
\* the call's first request; none goes out without Authorization.
C23_RetriesKeepHeaders ==
    \A i \in 1..Len(wire) :
        /\ wire[i].headers = wire[1].headers
        /\ "Authorization" \in wire[i].headers

\* A link that starts with one '/' and not with '/rest/', to a resource
\* whose name is a bare relative path outside "rest/".
IsPlainSlashTarget(x) ==
    /\ IsBareSuffix(x)
    /\ ~StartsWith(x, <<"r","e","s","t","/">>)

\* C27, as claimed: the link '/X' is resolved to the REST base followed by
\* '/X', 'https://api.snyk.io/rest/X'.
C27_SlashOnRestBase ==
    (IsPlainSlashTarget(next_in) /\ "slash" \in DOMAIN next_out)
    => next_out["slash"] = api_rest_base \o <<"/">> \o next_in

\* C27, amended: the link '/X' is resolved to the origin followed by '/X',
\* 'https://api.snyk.io/X', without the REST prefix.
C27_SlashOnOrigin ==
    (IsPlainSlashTarget(next_in) /\ "slash" \in DOMAIN next_out)
    => next_out["slash"] = api_origin \o <<"/">> \o next_in

C27_Witness ==
    /\ IsPlainSlashTarget(next_in) /\ Len(next_in) >= 2
    /\ "slash" \in DOMAIN next_out
    /\ next_out["slash"] = api_origin \o <<"/">> \o next_in

\* C28: the sleep after the k-th attempt of a call is 2^(k-1) seconds when
\* that attempt ended in a connection failure or a timeout, and the value of
\* Retry-After when it ended in a 429 that carries the header.
C28_BackoffAndRetryAfter ==
    \A k \in 1..Len(sleeps) :
        /\ resps[k].exc \in {"ConnectionError", "Timeout"} => sleeps[k] = 2^(k - 1)
        /\ (resps[k].exc = "none" /\ resps[k].status = 429
            /\ resps[k].retry_after # NoHeader)
           => sleeps[k] = resps[k].retry_after.n

C28_Witness ==
    /\ Len(sleeps) = 3
    /\ resps[1].exc = "ConnectionError" /\ resps[2].exc = "Timeout"
    /\ resps[3] = Response(429, N(1), ErrorBody)
    /\ sleeps = <<1, 2, 1>>

\* C29: every record get_sast_settings returns has the three fields
\* sast_enabled, sast_autofix_enabled and sast_autofix_pr_enabled.
C29_AllThreeFields ==
    (op = "get_sast_settings" /\ pc = "idle" /\ ret.kind = "return")
    => DOMAIN ret.value
       = {"sast_enabled", "sast_autofix_enabled", "sast_autofix_pr_enabled"}

\* Whether a line of console output shows the value `t`.
Mentions(line, t) == \E v \in line.shows : \E i \in 1..Len(v) : v[i] = t
\* C30: The bearer token never appears in the console output of enable_sast
\* or disable_sast: no line they print shows the token, so the output is the
\* same whatever the token is.
C30_TokenNeverPrinted == \A line \in console : ~Mentions(line, token)

\* C22: The errors get_organizations and get_sast_projects surface for an
\* invalid argument, a vendor 400/404, a rate-limit exhaustion and a
\* transport failure are pairwise distinguishable: two caught errors of
\* different kinds differ in exception type or in status_code.
C22_ErrorKindsDistinguishable ==
    \A a, b \in ui.caught :
        a.kind # b.kind => a.type # b.type \/ a.status_code # b.status_code

\* C25: The command disable sends no PATCH request unless the user answered
\* the confirmation prompt with yes or passed --yes, with --file as well as
\* with a single ORG_ID.
C25_NoPatchWithoutConsent ==
    "PATCH" \in sent => ui.skip_confirm \/ ui.answer = "yes"

DeletesOf(p) == Cardinality({i \in DOMAIN ui.deletes : ui.deletes[i][2] = p})
====
